---- MODULE Spec2Model ----
(***************************************************************************)
(* pkg/volume/csi/csi_util.go: SanitizeMsg (the secret-aware message       *)
(* sanitizer) and saveVolumeData / loadVolumeData (the volume data file).  *)
(*                                                                         *)
(* Go maps are reference values: a message field of type map[string]string *)
(* holds a reference to a map object.  The model keeps the map objects in  *)
(* `heap` and the message fields hold addresses into it (0 is the nil map).*)
(***************************************************************************)
EXTENDS Integers, Sequences, FiniteSets, TLC

VARIABLES
    heap,       \* address -> map object (a function from keys to values)
    heap0,      \* the map objects as the caller populated them (history)
    pb,         \* Spec: the value the caller passes to SanitizeMsg
    results,    \* Spec: outcomes of the calls SanitizeMsg(pb) made so far
    reqs,       \* SpecConc: the message instance of every invocation
    pc,         \* SpecConc: position of every invocation in SanitizeMsg
    local,      \* SpecConc: locals of every invocation (m, keys left to visit)
    ret,        \* SpecConc: the outcome of every finished invocation
    files,      \* SpecVol: path -> content of the file (a token sequence) or NoFile
    saved,      \* SpecVol: (dir, fileName) -> outcome of the latest save (history)
    loaded,     \* SpecVol: result of the latest loadVolumeData call
    nSaves      \* SpecVol: number of saveVolumeData calls made

vars == <<heap, heap0, pb, results, reqs, pc, local, ret,
          files, saved, loaded, nSaves>>

sanVars  == <<pb, results>>
concVars == <<reqs, pc, local, ret>>
volVars  == <<files, saved, loaded, nSaves>>

(***************************************************************************)
(* Bounds of the model.                                                    *)
(***************************************************************************)
NCred    == 2   \* map objects holding credentials
MaxCalls == 2   \* calls of SanitizeMsg on the same message
NProcs   == 2   \* concurrent invocations of SanitizeMsg
MaxSaves == 3   \* calls of saveVolumeData

(***************************************************************************)
(* Characters and identifiers.  A field name is a sequence of characters.  *)
(***************************************************************************)
LowerChars == <<"c", "d", "e", "i", "k", "n", "o", "s", "t", "v", "x">>
UpperChars == <<"C", "D", "E", "I", "K", "N", "O", "S", "T", "V", "X">>

IsLower(c) == \E i \in 1..Len(LowerChars) : LowerChars[i] = c

\* strings.ToUpper on one character
ToUpper(c) ==
    IF IsLower(c)
    THEN UpperChars[CHOOSE i \in 1..Len(LowerChars) : LowerChars[i] = c]
    ELSE c

\* fieldName = strings.ToUpper(fieldName[:1]) + fieldName[1:]
FieldName(name) == <<ToUpper(name[1])>> \o Tail(name)

\* The name the Go struct field of a proto field has: every word is
\* capitalised and an underscore before a lower-case letter is dropped.
RECURSIVE CamelFrom(_, _, _)
CamelFrom(name, i, capNext) ==
    IF i > Len(name) THEN <<>>
    ELSE IF name[i] = "_" /\ i < Len(name) /\ IsLower(name[i + 1])
         THEN CamelFrom(name, i + 1, TRUE)
         ELSE <<IF capNext THEN ToUpper(name[i]) ELSE name[i]>>
              \o CamelFrom(name, i + 1, FALSE)

CamelCase(name) == CamelFrom(name, 1, TRUE)

(***************************************************************************)
(* Schemas.  A field descriptor has the proto name of the field, the Go    *)
(* type of the struct field, and whether the csi_secret option is present. *)
(***************************************************************************)
Fd(name, goType, secret) == [name |-> name, goType |-> goType, secret |-> secret]

N_vid   == <<"v", "i", "d">>
N_ctx   == <<"c", "t", "x">>
N_sec   == <<"s", "e", "c">>
N_tok   == <<"t", "o", "k">>
N_n_sec == <<"n", "_", "s", "e", "c">>

\* The message types of the model: the field descriptors of each, in
\* declaration order.
Schema(type) ==
    CASE type = "Probe"      -> <<>>
      [] type = "NoSecret"   -> <<Fd(N_vid, "string", FALSE), Fd(N_ctx, "map", FALSE)>>
      [] type = "Publish"    -> <<Fd(N_vid, "string", FALSE), Fd(N_ctx, "map", FALSE),
                                  Fd(N_sec, "map", TRUE)>>
      [] type = "TwoSecrets" -> <<Fd(N_sec, "map", TRUE), Fd(N_vid, "string", FALSE),
                                  Fd(N_tok, "map", TRUE)>>
      [] type = "MultiWord"  -> <<Fd(N_vid, "string", FALSE), Fd(N_n_sec, "map", TRUE)>>
      [] type = "Malformed"  -> <<Fd(N_vid, "string", FALSE), Fd(N_sec, "string", TRUE)>>
      [] type = "MixedShape" -> <<Fd(N_sec, "map", TRUE), Fd(N_tok, "string", TRUE)>>
      [] OTHER               -> <<>>

MsgTypes == {"Probe", "NoSecret", "Publish", "TwoSecrets", "MultiWord",
             "Malformed", "MixedShape"}

(***************************************************************************)
(* Values.                                                                 *)
(***************************************************************************)
Marker == "* * * Sanitized * * *"

\* the keys of the model, in the order the text marshaller sorts them
KeySeq     == <<"fsType", "password", "username">>
CredKeys   == {"password", "username"}
SecretVals == {"alice", "p@ss"}
AttrMaps   == {<<>>, [k \in {"fsType"} |-> "ext4"]}

CredAddr == 1..NCred
AttrAddr == {NCred + 1}
Addr     == CredAddr \cup AttrAddr
NilMap   == 0

CredMaps == UNION {[S -> SecretVals] : S \in SUBSET CredKeys}

StrVal(s) == [t |-> "string", s |-> s, ref |-> NilMap]
MapVal(a) == [t |-> "map", s |-> "", ref |-> a]

\* The values a caller stores in a field with descriptor fd.  A sensitive
\* mapping is one of the credentials maps (several fields and several
\* messages may hold the same one); any other mapping is a map object of
\* volume attributes, never one of the credentials maps.
FieldValues(fd) ==
    IF fd.goType = "string"
    THEN IF fd.secret THEN {StrVal("hunter2")} ELSE {StrVal("vol-123")}
    ELSE IF fd.secret THEN {MapVal(a) : a \in CredAddr \cup {NilMap}}
         ELSE {MapVal(a) : a \in AttrAddr \cup {NilMap}}

AllFieldValues ==
    UNION {FieldValues(Fd(<<>>, g, s)) : g \in {"string", "map"}, s \in BOOLEAN}

\* the message instances of a type (pointers to generated structs)
Messages(type) ==
    LET fds == Schema(type) IN
    {[kind |-> "ptr", type |-> type, val |-> v] :
        v \in {w \in [1..Len(fds) -> AllFieldValues] :
                 \A i \in 1..Len(fds) : w[i] \in FieldValues(fds[i])}}

\* a value that does not implement descriptor.Message
NotAMessage == [kind |-> "other", type |-> "none", val |-> <<>>]

Inputs == {NotAMessage} \cup UNION {Messages(t) : t \in MsgTypes}

Heaps == {h \in [Addr -> CredMaps \cup AttrMaps] :
            /\ \A a \in CredAddr : h[a] \in CredMaps
            /\ \A a \in AttrAddr : h[a] \in AttrMaps}

\* the map a field value denotes (the nil map has no keys)
Deref(h, v) == IF v.ref = NilMap THEN <<>> ELSE h[v.ref]

(***************************************************************************)
(* SanitizeMsg, step by step.                                              *)
(***************************************************************************)
\* pb.(descriptor.Message)
IsDescriptorMessage(p) == p.kind = "ptr"

\* _, md := descriptor.ForMessage(...); fields := md.GetField()
GetField(p) == Schema(p.type)

\* Variant: every map field is taken for a secret, option or not.
HasCsiSecretAnyMap(fd) == fd.goType = "map"

\* proto.GetExtension(field.Options, csipb.E_CsiSecret) returns a *bool
HasCsiSecret(fd) == fd.secret

\* The loop collecting sanitizeFields: indices of the descriptors kept.
\* The loop leaves at the first field that carries the option.
RECURSIVE ScanFields(_, _)
ScanFields(fields, i) ==
    IF i > Len(fields) THEN <<>>
    ELSE IF HasCsiSecret(fields[i]) THEN <<i>>
         ELSE ScanFields(fields, i + 1)

SanitizeFields(p) == ScanFields(GetField(p), 1)

\* reflect.Indirect(s).FieldByName(fieldName): the index of the struct
\* field with that Go name, 0 for the zero Value (no such field)
FieldByName(p, goName) ==
    LET fds == Schema(p.type)
        hit == {i \in 1..Len(fds) : CamelCase(fds[i].name) = goName}
    IN IF hit = {} THEN 0 ELSE CHOOSE i \in hit : TRUE

\* s.Elem().FieldByName(fieldName).CanSet(): an exported field reached
\* through a pointer is settable
CanSet(p, idx) == p.kind = "ptr" /\ idx # 0

\* for key := range m { m[key] = "* * * Sanitized * * *" }
RedactMap(m) == [k \in DOMAIN m |-> Marker]

\* the write of the loop above lands in the map object m refers to
WriteBack(h, a, m) == IF a = NilMap THEN h ELSE [h EXCEPT ![a] = m]

\* The loop over sanitizeFields, from its j-th element on.
\* st: "ok" (loop ran to its end), "fail" (return "" at `line`), "panic".
RECURSIVE RedactFrom(_, _, _, _)
RedactFrom(h, p, sf, j) ==
    IF j > Len(sf) THEN [st |-> "ok", line |-> 200, heap |-> h]
    ELSE
      LET fd  == GetField(p)[sf[j]]
          idx == FieldByName(p, FieldName(fd.name))
      IN IF idx = 0
         THEN [st |-> "panic", line |-> 186, heap |-> h]   \* Interface() of the zero Value
         ELSE
           LET v == p.val[idx] IN
           IF v.t # "map"
           THEN [st |-> "fail", line |-> 188, heap |-> h]  \* not a map[string]string
           ELSE
             LET h2 == WriteBack(h, v.ref, RedactMap(Deref(h, v))) IN
             IF CanSet(p, idx)
             THEN RedactFrom(h2, p, sf, j + 1)  \* Set() stores the same map
             ELSE [st |-> "fail", line |-> 196, heap |-> h2]

(***************************************************************************)
(* fmt.Sprintf("%v", msg): the compact text form of the message, as the    *)
(* sequence of its field entries.  Zero values are not printed, and the    *)
(* entries of a map are printed in key order.                              *)
(***************************************************************************)
Entry(name, key, value) == [field |-> name, key |-> key, value |-> value]

RECURSIVE MapText(_, _, _)
MapText(name, m, i) ==
    IF i > Len(KeySeq) THEN <<>>
    ELSE (IF KeySeq[i] \in DOMAIN m
          THEN <<Entry(name, KeySeq[i], m[KeySeq[i]])>> ELSE <<>>)
         \o MapText(name, m, i + 1)

FieldText(h, fd, v) ==
    IF v.t = "string"
    THEN IF v.s = "" THEN <<>> ELSE <<Entry(fd.name, "", v.s)>>
    ELSE MapText(fd.name, Deref(h, v), 1)

RECURSIVE TextFrom(_, _, _)
TextFrom(h, p, i) ==
    IF i > Len(p.val) THEN <<>>
    ELSE FieldText(h, Schema(p.type)[i], p.val[i]) \o TextFrom(h, p, i + 1)

CompactText(h, p) == TextFrom(h, p, 1)

EmptyString == <<>>

\* an outcome of a call: how it ended, the string returned, the source
\* line of the return statement taken (0: none), and the heap it leaves
Returned(text, line, h) == [st |-> "returned", text |-> text, via |-> line, heap |-> h]
Panicked(h)             == [st |-> "panic", text |-> EmptyString, via |-> 0, heap |-> h]

\* Variant: the text is taken from the message as it was before the loop.
RenderBefore(h, p, r) == CompactText(h, p)

\* what the final return statement prints, given the loop's outcome
RenderAfter(h, p, r) == CompactText(r.heap, p)

\* SanitizeMsg(pb) run from heap h: the outcome and the heap it leaves
SanitizeMsgRun(h, p) ==
    IF ~IsDescriptorMessage(p) THEN Returned(EmptyString, 156, h)
    ELSE IF Len(GetField(p)) = 0 THEN Returned(EmptyString, 162, h)
    ELSE
      LET sf == SanitizeFields(p) IN
      IF Len(sf) = 0 THEN Returned(EmptyString, 176, h)
      ELSE
        LET r == RedactFrom(h, p, sf, 1) IN
        CASE r.st = "ok"    -> Returned(RenderAfter(h, p, r), 200, r.heap)
          [] r.st = "fail"  -> Returned(EmptyString, r.line, r.heap)
          [] r.st = "panic" -> Panicked(r.heap)

Outcome(run) == [st |-> run.st, text |-> run.text, via |-> run.via]

(***************************************************************************)
(* Spec: one caller, one message, SanitizeMsg called up to MaxCalls times. *)
(***************************************************************************)
ConcIdle ==
    /\ reqs = <<>> /\ pc = <<>> /\ local = <<>> /\ ret = <<>>

VolIdle ==
    /\ files = <<>> /\ saved = <<>> /\ loaded = <<>> /\ nSaves = 0

Init ==
    /\ heap \in Heaps
    /\ heap0 = heap
    /\ pb \in Inputs
    /\ results = <<>>
    /\ ConcIdle
    /\ VolIdle

SanitizeMsg ==
    /\ Len(results) < MaxCalls
    /\ LET run == SanitizeMsgRun(heap, pb) IN
         /\ heap' = run.heap
         /\ results' = Append(results, Outcome(run))
    /\ UNCHANGED <<heap0, pb, concVars, volVars>>

Next == SanitizeMsg

Spec == Init /\ [][Next]_vars

(***************************************************************************)
(* Properties of SanitizeMsg under Spec.                                   *)
(***************************************************************************)
\* what the caller sees in the fields of message p when the heap is h
MsgView(h, p) ==
    [i \in 1..Len(p.val) |->
        IF p.val[i].t = "map" THEN Deref(h, p.val[i]) ELSE p.val[i].s]

\* the fields of pb whose schema carries the csi_secret option
SecretIdx == {i \in 1..Len(pb.val) : Schema(pb.type)[i].secret}

SecretMapIdx == {i \in SecretIdx : pb.val[i].t = "map"}

Calls == 1..Len(results)

EntriesOf(text, name) == SelectSeq(text, LAMBDA e : e.field = name)

Values(text) == {text[j].value : j \in 1..Len(text)}

\* C1 (non-mutation): after SanitizeMsg(pb) has returned, every field of the
\* caller's message holds the value it held before the call; the values of
\* a sensitive mapping are still the secrets, not the marker.
C1_NonMutation ==
    Len(results) > 0 => MsgView(heap, pb) = MsgView(heap0, pb)

\* C2 (no leak): when every sensitive field of the message holds a mapping,
\* the string SanitizeMsg returns contains none of the original values of
\* any key of any sensitive field.
C2_NoLeak ==
    (SecretIdx # {} /\ SecretMapIdx = SecretIdx) =>
        \A n \in Calls : results[n].st = "returned" =>
            \A i \in SecretIdx :
                LET m == Deref(heap0, pb.val[i]) IN
                \A k \in DOMAIN m : m[k] \notin Values(results[n].text)

\* C3 (key preservation): in a rendered result every sensitive mapping is
\* printed with exactly the keys of the original mapping, each with the
\* marker as its value.
C3_KeyPreservation ==
    \A n \in Calls : results[n].via = 200 =>
        \A i \in SecretMapIdx :
            LET m == Deref(heap0, pb.val[i])
                es == EntriesOf(results[n].text, Schema(pb.type)[i].name)
            IN /\ {es[j].key : j \in 1..Len(es)} = DOMAIN m
               /\ \A j \in 1..Len(es) : es[j].value = Marker

\* C4 (fail-safe on malformed shape): when a field annotated sensitive holds
\* a value that is not a mapping, SanitizeMsg returns the empty string: no
\* panic and no partially redacted string.
C4_FailSafe ==
    (SecretMapIdx # SecretIdx) =>
        \A n \in Calls :
            results[n].st = "returned" /\ results[n].text = EmptyString

\* C5 (failures are absorbed): every call of SanitizeMsg ends by returning a
\* string to its caller, never by a panic.
C5_AlwaysReturns ==
    \A n \in Calls : results[n].st = "returned"

\* the heap with every mapping a sensitive field of p refers to redacted
AllRedacted(h, p) ==
    [a \in DOMAIN h |->
        IF \E i \in 1..Len(p.val) :
              Schema(p.type)[i].secret /\ p.val[i].t = "map" /\ p.val[i].ref = a
        THEN [k \in DOMAIN h[a] |-> Marker]
        ELSE h[a]]

\* the result the transition rule of the orchestration gives for p
RuleText(h, p) ==
    LET sens == {i \in 1..Len(p.val) : Schema(p.type)[i].secret} IN
    IF p.kind # "ptr" \/ sens = {} THEN EmptyString
    ELSE IF \E i \in sens : p.val[i].t # "map" THEN EmptyString
    ELSE CompactText(AllRedacted(h, p), p)

\* C6 (orchestration): a call ends in one of the three terminal outcomes of
\* the transition rule: the empty string when there is no schema or no
\* sensitive field, the empty string when redaction of a sensitive field
\* fails, and otherwise the rendering with every sensitive mapping redacted.
C6_Orchestration ==
    Len(results) > 0 =>
        /\ results[1].st = "returned"
        /\ results[1].text = RuleText(heap0, pb)

C10_RepeatCallStable ==
    \A n \in Calls : \A k \in Calls : results[n] = results[k]

\* a second call was made on a message whose first call rendered a redacted
\* mapping and overwrote the caller's map
C10_Witness ==
    /\ Len(results) >= 2
    /\ results[1].via = 200
    /\ Marker \in Values(results[2].text)
    /\ heap # heap0

(***************************************************************************)
(* SpecConc: NProcs invocations of SanitizeMsg run concurrently, with no   *)
(* synchronisation, invocation i on the message instance reqs[i].  The     *)
(* instances are distinct structs; their map fields refer to map objects   *)
(* of the heap, and two instances populated from the same credentials hold *)
(* the same map object.  An invocation advances one statement at a time.   *)
(***************************************************************************)
Procs == 1..NProcs

FullCreds == [k \in CredKeys |-> IF k = "password" THEN "p@ss" ELSE "alice"]
UserOnly  == [k \in {"username"} |-> "alice"]

ConcHeaps == {h \in Heaps :
                /\ \A a \in CredAddr : h[a] \in {FullCreds, UserOnly}
                /\ \A a \in AttrAddr : h[a] # <<>>}

ConcInputs ==
    {p \in Messages("NoSecret") \cup Messages("Publish") \cup Messages("TwoSecrets") :
        \A i \in 1..Len(p.val) :
            (p.val[i].t = "map" /\ ~Schema(p.type)[i].secret) => p.val[i].ref # NilMap}

NoLocal == [sf |-> <<>>, j |-> 0, m |-> NilMap, keys |-> {}]
NoRet   == [st |-> "running", text |-> EmptyString, via |-> 0]

InitConc ==
    /\ heap \in ConcHeaps
    /\ heap0 = heap
    /\ reqs \in [Procs -> ConcInputs]
    /\ pc = [i \in Procs |-> "start"]
    /\ local = [i \in Procs |-> NoLocal]
    /\ ret = [i \in Procs |-> NoRet]
    /\ pb = NotAMessage
    /\ results = <<>>
    /\ VolIdle

Finish(i, out) ==
    /\ pc' = [pc EXCEPT ![i] = "done"]
    /\ ret' = [ret EXCEPT ![i] = out]

\* lines 155-181: the type checks and the collection of sanitizeFields
Begin(i) ==
    /\ pc[i] = "start"
    /\ LET p == reqs[i] IN
       IF ~IsDescriptorMessage(p)
       THEN Finish(i, Outcome(Returned(EmptyString, 156, heap))) /\ UNCHANGED local
       ELSE IF Len(GetField(p)) = 0
       THEN Finish(i, Outcome(Returned(EmptyString, 162, heap))) /\ UNCHANGED local
       ELSE IF Len(SanitizeFields(p)) = 0
       THEN Finish(i, Outcome(Returned(EmptyString, 176, heap))) /\ UNCHANGED local
       ELSE /\ pc' = [pc EXCEPT ![i] = "loop"]
            /\ local' = [local EXCEPT ![i] = [sf |-> SanitizeFields(p), j |-> 1,
                                              m |-> NilMap, keys |-> {}]]
            /\ UNCHANGED ret
    /\ UNCHANGED <<heap, heap0, reqs, sanVars, volVars>>

\* lines 182-189: the head of the loop over sanitizeFields and the read of
\* the field into m
LoopHead(i) ==
    /\ pc[i] = "loop"
    /\ LET p == reqs[i]
           l == local[i]
       IN IF l.j > Len(l.sf)
          THEN pc' = [pc EXCEPT ![i] = "render"] /\ UNCHANGED <<local, ret>>
          ELSE LET idx == FieldByName(p, FieldName(GetField(p)[l.sf[l.j]].name)) IN
               IF idx = 0
               THEN Finish(i, Outcome(Panicked(heap))) /\ UNCHANGED local
               ELSE IF p.val[idx].t # "map"
               THEN Finish(i, Outcome(Returned(EmptyString, 188, heap))) /\ UNCHANGED local
               ELSE /\ pc' = [pc EXCEPT ![i] = "range"]
                    /\ local' = [local EXCEPT ![i].m = p.val[idx].ref,
                                              ![i].keys = DOMAIN Deref(heap, p.val[idx])]
                    /\ UNCHANGED ret
    /\ UNCHANGED <<heap, heap0, reqs, sanVars, volVars>>

\* lines 190-192: one iteration of `for key := range m`, in any key order
RangeStep(i) ==
    /\ pc[i] = "range"
    /\ IF local[i].keys = {}
       THEN /\ pc' = [pc EXCEPT ![i] = "set"]
            /\ UNCHANGED <<heap, local>>
       ELSE \E k \in local[i].keys :
              /\ heap' = [heap EXCEPT ![local[i].m][k] = Marker]
              /\ local' = [local EXCEPT ![i].keys = @ \ {k}]
              /\ UNCHANGED pc
    /\ UNCHANGED <<heap0, reqs, ret, sanVars, volVars>>

\* lines 193-197: the field is set to m again
SetField(i) ==
    /\ pc[i] = "set"
    /\ LET p == reqs[i]
           idx == FieldByName(p, FieldName(GetField(p)[local[i].sf[local[i].j]].name))
       IN IF CanSet(p, idx)
          THEN /\ pc' = [pc EXCEPT ![i] = "loop"]
               /\ local' = [local EXCEPT ![i].j = @ + 1]
               /\ UNCHANGED ret
          ELSE Finish(i, Outcome(Returned(EmptyString, 196, heap))) /\ UNCHANGED local
    /\ UNCHANGED <<heap, heap0, reqs, sanVars, volVars>>

\* line 200: the message is printed
Render(i) ==
    /\ pc[i] = "render"
    /\ Finish(i, Outcome(Returned(CompactText(heap, reqs[i]), 200, heap)))
    /\ UNCHANGED <<heap, heap0, reqs, local, sanVars, volVars>>

\* Two invocations inside the loop of lines 190-192 on the same map object
\* write one Go map with no synchronisation.  The runtime may detect it
\* ("fatal error: concurrent map writes") and end the process, or not.
RaceDetected ==
    /\ \E i \in Procs : \E k \in Procs :
          /\ i # k
          /\ pc[i] = "range" /\ pc[k] = "range"
          /\ local[i].m # NilMap /\ local[i].m = local[k].m
    /\ pc' = [i \in Procs |-> IF pc[i] = "done" THEN "done" ELSE "fatal"]
    /\ ret' = [i \in Procs |-> IF pc[i] = "done" THEN ret[i]
                               ELSE [st |-> "fatal", text |-> EmptyString, via |-> 0]]
    /\ UNCHANGED <<heap, heap0, reqs, local, sanVars, volVars>>

NextConc ==
    \/ \E i \in Procs : Begin(i)
    \/ \E i \in Procs : LoopHead(i)
    \/ \E i \in Procs : RangeStep(i)
    \/ \E i \in Procs : SetField(i)
    \/ \E i \in Procs : Render(i)
    \/ RaceDetected

SpecConc == InitConc /\ [][NextConc]_vars

\* C7 (concurrency safety): with invocations running concurrently on
\* independent message instances, no write of one invocation shows in the
\* message of an invocation that has not begun, and every invocation that
\* ends returns what it returns when run alone.
C7_ConcurrencySafe ==
    \A i \in Procs :
        /\ pc[i] = "start" => MsgView(heap, reqs[i]) = MsgView(heap0, reqs[i])
        /\ pc[i] \in {"done", "fatal"} =>
              ret[i] = Outcome(SanitizeMsgRun(heap0, reqs[i]))

(***************************************************************************)
(* SpecVol: the volume data file.  saveVolumeData writes a mapping as one  *)
(* JSON object to path.Join(dir, fileName); loadVolumeData reads it back.  *)
(* A path is the sequence of its components; a string of a mapping is a    *)
(* sequence of characters; the content of a file is a sequence of JSON     *)
(* tokens, a string token holding the escaped characters between quotes.   *)
(***************************************************************************)
DirsOnDisk == {<<"v1">>, <<"v2">>}
Dirs       == DirsOnDisk \cup {<<"gone">>}
FileNames  == {"vol_data.json", "other.json"}

\* the keys of the model, in the (byte) order the encoder sorts them
VolKeySeq == << <<"d">>, <<"h", "\"">> >>
VolKeys   == {VolKeySeq[i] : i \in 1..Len(VolKeySeq)}

NilData   == [nil |-> TRUE, kv |-> <<>>]
MapData(kv) == [nil |-> FALSE, kv |-> kv]

Plain   == <<"x">>
Special == <<"\"", "\\", "<">>     \* characters the encoder escapes

\* the mappings saved in the model: the nil map, the empty map, one key,
\* and both keys with either value order
VolData ==
    {NilData, MapData(<<>>),
     MapData([k \in {VolKeySeq[1]} |-> Plain]),
     MapData([k \in {VolKeySeq[2]} |-> Special]),
     MapData([k \in VolKeys |-> IF k = VolKeySeq[1] THEN Special ELSE Plain]),
     MapData([k \in VolKeys |-> IF k = VolKeySeq[1] THEN Plain ELSE Special])}

\* path.Join(dir, fileName): the elements joined, empty and "." elements
\* cleaned away
Join(dir, fileName) ==
    SelectSeq(dir \o <<fileName>>, LAMBDA c : c # "" /\ c # ".")

Paths == {Join(d, f) : d \in Dirs, f \in FileNames}

NoFile == [exists |-> FALSE, content |-> <<>>]

Tok(t)      == [tk |-> t, lit |-> <<>>]
StrTok(lit) == [tk |-> "string", lit |-> lit]

\* the JSON escape of one character (the encoder escapes HTML characters)
EscapeChar(c) ==
    CASE c = "\"" -> <<"\\", "\"">>
      [] c = "\\" -> <<"\\", "\\">>
      [] c = "<"  -> <<"\\", "u", "0", "0", "3", "c">>
      [] OTHER    -> <<c>>

RECURSIVE Escape(_)
Escape(str) ==
    IF str = <<>> THEN <<>> ELSE EscapeChar(Head(str)) \o Escape(Tail(str))

\* the characters a string token denotes; ok is FALSE for a bad escape
RECURSIVE Unescape(_)
Unescape(lit) ==
    IF lit = <<>> THEN [ok |-> TRUE, str |-> <<>>]
    ELSE IF Head(lit) # "\\"
    THEN LET r == Unescape(Tail(lit)) IN [ok |-> r.ok, str |-> <<Head(lit)>> \o r.str]
    ELSE IF Len(lit) < 2 THEN [ok |-> FALSE, str |-> <<>>]
    ELSE IF lit[2] \in {"\"", "\\"}
    THEN LET r == Unescape(SubSeq(lit, 3, Len(lit))) IN
         [ok |-> r.ok, str |-> <<lit[2]>> \o r.str]
    ELSE IF Len(lit) >= 6 /\ SubSeq(lit, 2, 6) = <<"u", "0", "0", "3", "c">>
    THEN LET r == Unescape(SubSeq(lit, 7, Len(lit))) IN
         [ok |-> r.ok, str |-> <<"<">> \o r.str]
    ELSE [ok |-> FALSE, str |-> <<>>]

\* the members of the object, keys sorted, from the i-th key of VolKeySeq on
RECURSIVE Members(_, _, _)
Members(kv, i, first) ==
    IF i > Len(VolKeySeq) THEN <<>>
    ELSE IF VolKeySeq[i] \notin DOMAIN kv THEN Members(kv, i + 1, first)
    ELSE (IF first THEN <<>> ELSE <<Tok(",")>>)
         \o <<StrTok(Escape(VolKeySeq[i])), Tok(":"), StrTok(Escape(kv[VolKeySeq[i]]))>>
         \o Members(kv, i + 1, FALSE)

\* json.NewEncoder(file).Encode(data): the text written, newline included
Encode(data) ==
    IF data.nil THEN <<Tok("null"), Tok("\n")>>
    ELSE <<Tok("{")>> \o Members(data.kv, 1, TRUE) \o <<Tok("}"), Tok("\n")>>

DecodeError == [err |-> TRUE, data |-> NilData]

\* the members of an object from token i on, into the map acc
RECURSIVE ParseMembers(_, _, _)
ParseMembers(toks, i, acc) ==
    IF i + 2 > Len(toks) THEN DecodeError
    ELSE IF toks[i].tk # "string" \/ toks[i + 1].tk # ":" \/ toks[i + 2].tk # "string"
    THEN DecodeError
    ELSE
      LET k == Unescape(toks[i].lit)
          v == Unescape(toks[i + 2].lit)
      IN IF ~k.ok \/ ~v.ok \/ i + 3 > Len(toks) THEN DecodeError
         ELSE LET acc2 == (k.str :> v.str) @@ acc IN
              IF toks[i + 3].tk = "}" THEN [err |-> FALSE, data |-> MapData(acc2)]
              ELSE IF toks[i + 3].tk = "," THEN ParseMembers(toks, i + 4, acc2)
              ELSE DecodeError

\* json.NewDecoder(file).Decode(&data) with data an empty map: the first
\* JSON value of the file is read; null leaves a nil map
Decode(toks) ==
    IF Len(toks) = 0 THEN DecodeError
    ELSE IF toks[1].tk = "null" THEN [err |-> FALSE, data |-> NilData]
    ELSE IF toks[1].tk # "{" \/ Len(toks) < 2 THEN DecodeError
    ELSE IF toks[2].tk = "}" THEN [err |-> FALSE, data |-> MapData(<<>>)]
    ELSE ParseMembers(toks, 2, <<>>)

\* os.Create succeeds when the directory of the path exists
CanCreate(path) == SubSeq(path, 1, Len(path) - 1) \in DirsOnDisk

\* Variant: the file is opened without truncation, writes go to its end.
CreateKeep(fs, path) ==
    [fs EXCEPT ![path] = [exists |-> TRUE, content |-> fs[path].content]]

\* os.Create(dataFilePath): the file exists and is empty
CreateFile(fs, path) ==
    [fs EXCEPT ![path] = [exists |-> TRUE, content |-> <<>>]]

\* a write to the open file
WriteFile(fs, path, toks) ==
    [fs EXCEPT ![path].content = @ \o toks]

\* loadVolumeData(dir, fileName) on the files fs
loadVolumeData(fs, dir, fileName) ==
    LET path == Join(dir, fileName) IN
    IF ~fs[path].exists THEN [err |-> TRUE, data |-> NilData]   \* os.Open fails
    ELSE Decode(fs[path].content)

Never == [st |-> "never", data |-> NilData]

InitVol ==
    /\ files = [p \in Paths |-> NoFile]
    /\ saved = [d \in Dirs, f \in FileNames |-> Never]
    /\ loaded = [dir |-> <<>>, fileName |-> "", res |-> [err |-> TRUE, data |-> NilData]]
    /\ nSaves = 0
    /\ heap = <<>> /\ heap0 = <<>>
    /\ pb = NotAMessage /\ results = <<>>
    /\ ConcIdle

\* how much of the text reaches the file when the write fails
WriteFailsAt == {1}

\* saveVolumeData(dir, fileName, data); wrote = -1: the write succeeds,
\* otherwise it fails after `wrote` tokens
saveVolumeData(dir, fileName, data, wrote) ==
    /\ nSaves < MaxSaves
    /\ nSaves' = nSaves + 1
    /\ LET path == Join(dir, fileName) IN
       IF ~CanCreate(path)
       THEN UNCHANGED <<files, saved>>                       \* os.Create fails
       ELSE IF wrote < 0
       THEN /\ files' = WriteFile(CreateFile(files, path), path, Encode(data))
            /\ saved' = [saved EXCEPT ![dir, fileName] = [st |-> "ok", data |-> data]]
       ELSE /\ files' = WriteFile(CreateFile(files, path), path,
                                  SubSeq(Encode(data), 1, wrote))
            /\ saved' = [saved EXCEPT ![dir, fileName] = [st |-> "failed", data |-> NilData]]
    /\ UNCHANGED <<loaded, heap, heap0, sanVars, concVars>>

CallLoadVolumeData(dir, fileName) ==
    /\ loaded' = [dir |-> dir, fileName |-> fileName,
                  res |-> loadVolumeData(files, dir, fileName)]
    /\ UNCHANGED <<files, saved, nSaves, heap, heap0, sanVars, concVars>>

NextVol ==
    \/ \E d \in Dirs, f \in FileNames, data \in VolData, w \in {-1} \cup WriteFailsAt :
          saveVolumeData(d, f, data, w)
    \/ \E d \in Dirs, f \in FileNames : CallLoadVolumeData(d, f)

SpecVol == InitVol /\ [][NextVol]_vars

\* C9 (volume data round trip): loadVolumeData(dir, f) returns the mapping
\* of the latest save to (dir, f) when that save succeeded, whatever was
\* saved there before and whatever was saved elsewhere, and fails with no
\* mapping when nothing was ever saved to (dir, f).
C9_RoundTrip ==
    \A d \in Dirs, f \in FileNames :
        LET res == loadVolumeData(files, d, f) IN
        /\ saved[d, f].st = "ok" => ~res.err /\ res.data = saved[d, f].data
        /\ saved[d, f].st = "never" => res.err /\ res.data = NilData

\* a load returned the mapping of the latest save: two keys, a value with
\* characters that are escaped, another file holding a different mapping
C9_Witness ==
    /\ nSaves >= 2
    /\ loaded.fileName # ""
    /\ ~loaded.res.err
    /\ saved[loaded.dir, loaded.fileName].st = "ok"
    /\ loaded.res.data = saved[loaded.dir, loaded.fileName].data
    /\ DOMAIN loaded.res.data.kv = VolKeys
    /\ \E k \in VolKeys : loaded.res.data.kv[k] = Special
    /\ \E d \in Dirs, f \in FileNames :
          saved[d, f].st = "ok" /\ saved[d, f].data # loaded.res.data

====
